---- MODULE Spec2Model ----
(***************************************************************************)
(* A model of pstryk-js: the PstrykClient gateway (src/src/pstrykClient.ts) *)
(* together with the part of the HTTP transport (axios) that the gateway   *)
(* configures and awaits.                                                  *)
(*                                                                         *)
(* JavaScript values are records [t, v]: t is the runtime type, v the      *)
(* payload, so that `undefined`, `null` and the strings "undefined" and    *)
(* "" stay distinct.                                                       *)
(***************************************************************************)
EXTENDS Integers, Sequences, FiniteSets, TLC

VARIABLES
    ctor,           \* the last `new PstrykClient(...)`: its arguments and what it threw
    axiosInstance,  \* PstrykClient.axiosInstance: the transport's defaults, or NoInstance
    calls,          \* the invocations of the five operations, in the order they were made
    requests        \* the outbound requests the transport was handed, in order

vars == <<ctor, axiosInstance, calls, requests>>

(***************************************************************************)
(* Bounds of the model.                                                    *)
(***************************************************************************)
MaxCalls == 2

(***************************************************************************)
(* JavaScript values.                                                      *)
(***************************************************************************)
Undefined == [t |-> "undefined", v |-> ""]
Null == [t |-> "null", v |-> ""]
Str(s) == [t |-> "string", v |-> s]
Num(s) == [t |-> "number", v |-> s]

\* `${x}` : the string a template literal interpolates for x.
TemplateString(x) ==
    CASE x.t = "undefined" -> "undefined"
      [] x.t = "null" -> "null"
      [] OTHER -> x.v

\* `!apiToken` for the values a credential can take.
\* (Variant: the guard `apiToken === undefined`, which lets "" and null through.)
NotProvided_onlyUndefined(apiToken) == apiToken.t = "undefined"
NotProvided(apiToken) ==
    \/ apiToken.t \in {"undefined", "null"}
    \/ apiToken.t = "string" /\ apiToken.v = ""

(***************************************************************************)
(* The constructor's configuration.                                        *)
(***************************************************************************)
DefaultBaseUrl == "https://api.pstryk.pl"

\* A default parameter value replaces `undefined` only.
baseUrlOrDefault(baseUrl) ==
    IF baseUrl.t = "undefined" THEN Str(DefaultBaseUrl) ELSE baseUrl

\* Milliseconds; the transport reads 0 as "no timeout".
timeout == 10000

\* (Variant: the usual "Bearer" scheme instead of the vendor's "sk-" tag.)
Authorization_bearer(apiToken) == "Bearer " \o TemplateString(apiToken)
Authorization(apiToken) == "sk-" \o TemplateString(apiToken)

Accept == "application/json"

\* axios.create({ baseURL, timeout, headers }): the instance's defaults.
\* (Variant: an instance created without a timeout.)
axiosCreate_noTimeout(apiToken, baseUrl) ==
    [ baseURL |-> baseUrl,
      timeout |-> 0,
      headers |-> [Authorization |-> Authorization(apiToken), Accept |-> Accept] ]
axiosCreate(apiToken, baseUrl) ==
    [ baseURL |-> baseUrl,
      timeout |-> timeout,
      headers |-> [Authorization |-> Authorization(apiToken), Accept |-> Accept] ]

NoInstance == [created |-> FALSE]
NoError == ""

(***************************************************************************)
(* Inputs.                                                                 *)
(***************************************************************************)
ApiTokens == {Str(""), Undefined, Null, Str("test-token")}
BaseUrls == {Undefined, Str(""), Str("https://your-custom-pstryk-instance.com")}

\* Parameter objects: a function from the keys that are set to their values.
\* A key can be absent, or present with the value `undefined`.
ParamsFull ==
    [ resolution |-> Str("day"),
      window_start |-> Str("2025-04-18T00:00:00Z"),
      window_end |-> Str("2025-04-19T00:00:00Z"),
      for_tz |-> Str("Europe/Warsaw") ]
ParamsRequiredOnly ==
    [ resolution |-> Str("year"),
      window_start |-> Str("2024-01-01T00:00:00Z") ]
ParamsUndefinedEnd ==
    [ resolution |-> Str("hour"),
      window_start |-> Str("2025-04-18T00:00:00Z"),
      window_end |-> Undefined,
      for_tz |-> Str("Europe/Warsaw") ]
ParamObjects == {ParamsFull, ParamsRequiredOnly, ParamsUndefinedEnd}

\* Parameter objects as an untyped call site can pass them: the resolution
\* is any string, inside or outside the set the operation's type allows.
ParamsWeek ==
    [ resolution |-> Str("week"),
      window_start |-> Str("2025-04-18T00:00:00Z"),
      window_end |-> Str("2025-04-19T00:00:00Z") ]
ParamsFortnight ==
    [ resolution |-> Str("fortnight"),
      window_start |-> Str("2025-04-18T00:00:00Z") ]
UntypedParamObjects == {ParamsRequiredOnly, ParamsWeek, ParamsFortnight}

(***************************************************************************)
(* The transport: query serialisation.                                     *)
(***************************************************************************)
\* The query of a request, as the transport's serialiser builds it from the
\* `params` object: the keys whose value is neither undefined nor null, each
\* with its value as a string.
\* (Variant: every key interpolated into the query, `window_end=undefined`.)
serializeParams_keepUndefined(params) ==
    [k \in DOMAIN params |-> TemplateString(params[k])]
serializeParams(params) ==
    [k \in {key \in DOMAIN params : params[key].t \notin {"undefined", "null"}} |->
        TemplateString(params[k])]

Pending == [state |-> "pending"]

\* The request's timeout timer: armed with the time it has run, or cleared.
Armed(ms) == [armed |-> TRUE, elapsed |-> ms]
Cleared == [armed |-> FALSE]

NoReply == [received |-> FALSE]

\* instance.get(url, { params }) on behalf of call c: the request the
\* transport is handed, built from the instance's defaults.
newRequest_interpolatedQuery(c, url, params) ==
    [ call |-> c,
      method |-> "GET",
      baseURL |-> axiosInstance.baseURL,
      url |-> url,
      headers |-> axiosInstance.headers,
      query |-> serializeParams_keepUndefined(params),
      timeout |-> axiosInstance.timeout,
      timer |-> Armed(0),
      reply |-> NoReply,
      promise |-> Pending ]
newRequest(c, url, params) ==
    [ call |-> c,
      method |-> "GET",
      baseURL |-> axiosInstance.baseURL,
      url |-> url,
      headers |-> axiosInstance.headers,
      query |-> serializeParams(params),
      timeout |-> axiosInstance.timeout,
      timer |-> Armed(0),
      reply |-> NoReply,
      promise |-> Pending ]

\* (Variant: the request issued a second time.)
axiosGet_twice(c, url, params) ==
    Append(Append(requests, newRequest(c, url, params)), newRequest(c, url, params))
axiosGet(c, url, params) == Append(requests, newRequest(c, url, params))

(***************************************************************************)
(* The transport: JSON.  A body on the wire is a sequence of tokens; a     *)
(* document is a sequence of members [k, v] with atomic values.            *)
(***************************************************************************)
LBrace == [t |-> "punct", v |-> "{"]
RBrace == [t |-> "punct", v |-> "}"]
Colon == [t |-> "punct", v |-> ":"]
Comma == [t |-> "punct", v |-> ","]

Member(k, v) == [t |-> "member", k |-> k, v |-> v]

RECURSIVE stringifyMembers(_)
stringifyMembers(doc) ==
    IF doc = <<>> THEN <<>>
    ELSE <<Str(doc[1].k), Colon, doc[1].v>> \o
         (IF Len(doc) = 1 THEN <<>> ELSE <<Comma>> \o stringifyMembers(Tail(doc)))

\* The server's JSON encoding of a document.
JSONstringify(doc) == <<LBrace>> \o stringifyMembers(doc) \o <<RBrace>>

IsAtom(tok) == tok.t \in {"string", "number", "null", "boolean"}

\* Whether the tokens between the braces are `k : v (, k : v)*` or nothing.
WellFormedMembers(inner) ==
    \/ inner = <<>>
    \/ /\ Len(inner) % 4 = 3
       /\ \A i \in 1..Len(inner) :
            CASE i % 4 = 1 -> inner[i].t = "string"
              [] i % 4 = 2 -> inner[i] = Colon
              [] i % 4 = 3 -> IsAtom(inner[i])
              [] OTHER -> inner[i] = Comma

\* JSON.parse: [ok, value]; ok is FALSE where JSON.parse throws a SyntaxError.
JSONparse(text) ==
    IF /\ Len(text) >= 2
       /\ text[1] = LBrace
       /\ text[Len(text)] = RBrace
       /\ WellFormedMembers(SubSeq(text, 2, Len(text) - 1))
    THEN LET inner == SubSeq(text, 2, Len(text) - 1) IN
         [ ok |-> TRUE,
           value |-> [i \in 1..((Len(inner) + 1) \div 4) |->
                        Member(inner[4 * i - 3].v, inner[4 * i - 1])] ]
    ELSE [ok |-> FALSE, value |-> <<>>]

\* response.data as the caller sees it: a parsed document or the raw text.
ObjectData(doc) == [t |-> "object", members |-> doc]
TextData(text) == [t |-> "text", tokens |-> text]

\* The default transformResponse of an instance created without
\* `responseType` or `transitional`: a body that parses is replaced by the
\* parsed document, a body that does not parse is handed on as it came.
transformResponse(body) ==
    IF JSONparse(body).ok THEN ObjectData(JSONparse(body).value) ELSE TextData(body)

\* The transport's default validateStatus (the instance sets none): 2xx
\* fulfils, anything else rejects with an error that carries the response.
validateStatus(status) == status >= 200 /\ status < 300

NoResponse == [status |-> 0, data |-> Undefined]
AxiosError(code, response) == [name |-> "AxiosError", code |-> code, response |-> response]

Fulfilled(value) == [state |-> "fulfilled", value |-> value]
Rejected(reason) == [state |-> "rejected", reason |-> reason]

\* settle(): the promise of a request whose reply has arrived.
settle(reply) ==
    LET response == [status |-> reply.status, data |-> transformResponse(reply.body)] IN
    IF validateStatus(reply.status)
    THEN Fulfilled(response)
    ELSE Rejected(AxiosError(IF reply.status < 500 THEN "ERR_BAD_REQUEST" ELSE "ERR_BAD_RESPONSE",
                             response))

(***************************************************************************)
(* The server.                                                             *)
(***************************************************************************)
DocDay ==
    << Member("resolution", Str("day")), Member("carbon_footprint_total", Num("123.45")) >>
DocHour ==
    << Member("resolution", Str("hour")), Member("carbon_footprint_total", Null) >>
DocNotFound == << Member("error", Str("Not found")) >>
NoDoc == <<>>

\* A body cut short: the closing brace never arrives.
Truncated(text) == SubSeq(text, 1, Len(text) - 1)

Reply(status, doc, body) == [received |-> TRUE, status |-> status, doc |-> doc, body |-> body]

Replies ==
    { Reply(200, DocDay, JSONstringify(DocDay)),
      Reply(200, DocHour, JSONstringify(DocHour)),
      Reply(200, NoDoc, Truncated(JSONstringify(DocDay))),
      Reply(404, DocNotFound, JSONstringify(DocNotFound)),
      Reply(500, NoDoc, Truncated(JSONstringify(DocNotFound))) }

(***************************************************************************)
(* The gateway.                                                            *)
(***************************************************************************)
Init ==
    /\ ctor = [called |-> FALSE, apiToken |-> Undefined, baseUrl |-> Undefined, thrown |-> NoError]
    /\ axiosInstance = NoInstance
    /\ calls = <<>>
    /\ requests = <<>>

\* new PstrykClient(apiToken, baseUrl).  A constructor that throws leaves no
\* object behind, so the caller may construct again.
PstrykClient(apiToken, baseUrl) ==
    /\ axiosInstance = NoInstance
    /\ IF NotProvided(apiToken)
       THEN /\ ctor' = [called |-> TRUE, apiToken |-> apiToken, baseUrl |-> baseUrl,
                        thrown |-> "API token is required"]
            /\ UNCHANGED axiosInstance
       ELSE /\ ctor' = [called |-> TRUE, apiToken |-> apiToken, baseUrl |-> baseUrl,
                        thrown |-> NoError]
            /\ axiosInstance' = axiosCreate(apiToken, baseUrlOrDefault(baseUrl))
    /\ UNCHANGED <<calls, requests>>

\* An operation up to its `await`: the request is handed to the transport
\* and the caller holds a pending promise.
Invoke(op, url, params) ==
    /\ axiosInstance # NoInstance
    /\ Len(calls) < MaxCalls
    /\ requests' = axiosGet(Len(calls) + 1, url, params)
    /\ calls' = Append(calls, [ op |-> op,
                                params |-> params,
                                req |-> Len(requests) + 1,
                                promise |-> Pending,
                                settles |-> 0 ])
    /\ UNCHANGED <<ctor, axiosInstance>>

getCarbonFootprint(params) ==
    Invoke("getCarbonFootprint", "/integrations/meter-data/carbon-footprint/", params)

\* (Variant: the resolution checked against the operation's set before the
\* request; a value outside it rejects the call with no request issued.)
getEnergyCost_validated(params) ==
    IF params.resolution.v \in {"hour", "day", "week", "month"}
    THEN Invoke("getEnergyCost", "/integrations/meter-data/energy-cost/", params)
    ELSE /\ axiosInstance # NoInstance
         /\ Len(calls) < MaxCalls
         /\ calls' = Append(calls, [ op |-> "getEnergyCost",
                                     params |-> params,
                                     req |-> 0,
                                     promise |-> Rejected([name |-> "RangeError",
                                                           code |-> "ERR_INVALID_RESOLUTION",
                                                           response |-> NoResponse]),
                                     settles |-> 1 ])
         /\ UNCHANGED <<ctor, axiosInstance, requests>>
getEnergyCost(params) ==
    Invoke("getEnergyCost", "/integrations/meter-data/energy-cost/", params)

getEnergyUsage(params) ==
    Invoke("getEnergyUsage", "/integrations/meter-data/energy-usage/", params)

\* (Variant: getPricing sent to the prosumer path.)
getPricing_prosumerPath(params) ==
    Invoke("getPricing", "/integrations/prosumer-pricing/", params)
getPricing(params) ==
    Invoke("getPricing", "/integrations/pricing/", params)

getProsumerPricing(params) ==
    Invoke("getProsumerPricing", "/integrations/prosumer-pricing/", params)

\* The request whose promise call c awaits: the one its own get() returned.
\* (Variant: the latest request of the instance, as if kept in a shared field.)
AwaitedRequest_latest(c) == Len(requests)
AwaitedRequest(c) == calls[c].req

\* `const response = await ...; return response.data;` with no try/catch:
\* the call's promise resolves with response.data, or rejects with the
\* reason the awaited promise rejected with.
\* (Variants: `return response`; a catch that throws a new Error.)
AsyncReturn_wholeResponse(p) ==
    IF p.state = "fulfilled" THEN Fulfilled(p.value) ELSE Rejected(p.reason)
AsyncReturn_wrapError(p) ==
    IF p.state = "fulfilled" THEN Fulfilled(p.value.data)
    ELSE Rejected([name |-> "Error", code |-> "REQUEST_FAILED", response |-> NoResponse])
AsyncReturn(p) ==
    IF p.state = "fulfilled" THEN Fulfilled(p.value.data) ELSE Rejected(p.reason)

\* The continuation of call c after its `await`.
\* (Variant: a rejected call drops the credential from the instance.)
Resume_dropCredentialOnError(c) ==
    /\ c \in 1..Len(calls)
    /\ calls[c].promise.state = "pending"
    /\ requests[AwaitedRequest(c)].promise.state # "pending"
    /\ calls' = [calls EXCEPT ![c].promise = AsyncReturn(requests[AwaitedRequest(c)].promise),
                              ![c].settles = @ + 1]
    /\ axiosInstance' =
           IF requests[AwaitedRequest(c)].promise.state = "rejected"
           THEN [axiosInstance EXCEPT !.headers.Authorization = ""]
           ELSE axiosInstance
    /\ UNCHANGED <<ctor, requests>>
Resume(c) ==
    /\ c \in 1..Len(calls)
    /\ calls[c].promise.state = "pending"
    /\ requests[AwaitedRequest(c)].promise.state # "pending"
    /\ calls' = [calls EXCEPT ![c].promise = AsyncReturn(requests[AwaitedRequest(c)].promise),
                              ![c].settles = @ + 1]
    /\ UNCHANGED <<ctor, axiosInstance, requests>>

(***************************************************************************)
(* The transport and the server.                                           *)
(***************************************************************************)
InFlight(r) == r \in 1..Len(requests) /\ requests[r].promise.state = "pending"

\* The timer of request r has run for the configured timeout (0: no timeout).
Expired(r) ==
    /\ requests[r].timeout > 0
    /\ requests[r].timer.armed
    /\ requests[r].timer.elapsed >= requests[r].timeout

TickMs == timeout \div 2

\* Time passes for every request in flight; it cannot pass an armed timer's expiry.
Tick ==
    /\ \E r \in 1..Len(requests) : InFlight(r)
    /\ \A r \in 1..Len(requests) : InFlight(r) => requests[r].timer.elapsed < requests[r].timeout
    /\ requests' = [r \in 1..Len(requests) |->
                      IF InFlight(r)
                      THEN [requests[r] EXCEPT !.timer = Armed(@.elapsed + TickMs)]
                      ELSE requests[r]]
    /\ UNCHANGED <<ctor, axiosInstance, calls>>

\* The server answers request r before its timer expires.
ServerRespond(r, reply) ==
    /\ InFlight(r)
    /\ ~Expired(r)
    /\ requests' = [requests EXCEPT ![r].reply = reply,
                                    ![r].timer = Cleared,
                                    ![r].promise = settle(reply)]
    /\ UNCHANGED <<ctor, axiosInstance, calls>>

\* The connection fails (DNS, refused, reset) before any reply.
NetworkError(r) ==
    /\ InFlight(r)
    /\ ~Expired(r)
    /\ requests' = [requests EXCEPT ![r].timer = Cleared,
                                    ![r].promise = Rejected(AxiosError("ERR_NETWORK", NoResponse))]
    /\ UNCHANGED <<ctor, axiosInstance, calls>>

\* The timer of request r fires: the request is aborted.
TimeoutExpire(r) ==
    /\ InFlight(r)
    /\ Expired(r)
    /\ requests' = [requests EXCEPT ![r].timer = Cleared,
                                    ![r].promise = Rejected(AxiosError("ECONNABORTED", NoResponse))]
    /\ UNCHANGED <<ctor, axiosInstance, calls>>

Next ==
    \/ \E apiToken \in ApiTokens, baseUrl \in BaseUrls : PstrykClient(apiToken, baseUrl)
    \/ \E params \in ParamObjects : getCarbonFootprint(params)
    \/ \E params \in ParamObjects : getEnergyCost(params)
    \/ \E params \in ParamObjects : getEnergyUsage(params)
    \/ \E params \in ParamObjects : getPricing(params)
    \/ \E params \in ParamObjects : getProsumerPricing(params)
    \/ \E c \in 1..MaxCalls : Resume(c)
    \/ Tick
    \/ \E r \in 1..Len(requests), reply \in Replies : ServerRespond(r, reply)
    \/ \E r \in 1..Len(requests) : NetworkError(r)
    \/ \E r \in 1..Len(requests) : TimeoutExpire(r)

Spec == Init /\ [][Next]_vars

\* The same client called from untyped call sites.
NextUntyped ==
    \/ \E apiToken \in ApiTokens, baseUrl \in BaseUrls : PstrykClient(apiToken, baseUrl)
    \/ \E params \in UntypedParamObjects : getCarbonFootprint(params)
    \/ \E params \in UntypedParamObjects : getEnergyCost(params)
    \/ \E params \in UntypedParamObjects : getEnergyUsage(params)
    \/ \E params \in UntypedParamObjects : getPricing(params)
    \/ \E params \in UntypedParamObjects : getProsumerPricing(params)
    \/ \E c \in 1..MaxCalls : Resume(c)
    \/ Tick
    \/ \E r \in 1..Len(requests), reply \in Replies : ServerRespond(r, reply)
    \/ \E r \in 1..Len(requests) : NetworkError(r)
    \/ \E r \in 1..Len(requests) : TimeoutExpire(r)

SpecUntyped == Init /\ [][NextUntyped]_vars

\* Timers fire, time passes while a request is in flight, and a settled
\* promise's continuation runs; the server owes no answer.
SpecLive ==
    /\ Spec
    /\ WF_vars(Tick)
    /\ \A r \in 1..MaxCalls : WF_vars(TimeoutExpire(r))
    /\ \A c \in 1..MaxCalls : WF_vars(Resume(c))

(***************************************************************************)
(* Properties.                                                             *)
(***************************************************************************)
Calls == 1..Len(calls)
Requests == 1..Len(requests)
Settled(c) == calls[c].promise.state # "pending"
OwnRequests(c) == {r \in Requests : requests[r].call = c}
Is2xx(status) == status \in 200..299
\* The reply carries the JSON text of a document, whole.
IsJSON(reply) == reply.received /\ reply.body = JSONstringify(reply.doc)
\* The fields of a parameter object that were supplied with a value.
Supplied(params) == {k \in DOMAIN params : params[k] # Undefined /\ params[k] # Null}

\* C1: after a construction with an empty, undefined or null credential the
\* constructor has thrown "API token is required", no transport exists and
\* no request has been issued.
C1_EmptyCredentialFails ==
    (ctor.called /\ ctor.apiToken \in {Str(""), Undefined, Null}) =>
        /\ ctor.thrown = "API token is required"
        /\ axiosInstance = NoInstance
        /\ requests = <<>>
        /\ calls = <<>>

C1_Witness ==
    /\ ctor.called
    /\ ctor.apiToken = Null
    /\ ctor.thrown = "API token is required"

PathOf(op) ==
    CASE op = "getCarbonFootprint" -> "/integrations/meter-data/carbon-footprint/"
      [] op = "getEnergyCost" -> "/integrations/meter-data/energy-cost/"
      [] op = "getEnergyUsage" -> "/integrations/meter-data/energy-usage/"
      [] op = "getPricing" -> "/integrations/pricing/"
      [] op = "getProsumerPricing" -> "/integrations/prosumer-pricing/"

\* C2: every request is a GET to the fixed path of the operation that issued
\* it, and its query holds exactly the supplied fields of that call's
\* parameter object, each with its value.
C2_FixedPathAndQuery ==
    \A r \in Requests :
        LET call == calls[requests[r].call] IN
        /\ requests[r].method = "GET"
        /\ requests[r].url = PathOf(call.op)
        /\ DOMAIN requests[r].query = Supplied(call.params)
        /\ \A k \in Supplied(call.params) : requests[r].query[k] = call.params[k].v

C2_Witness ==
    \E r \in Requests :
        /\ calls[requests[r].call].op = "getPricing"
        /\ calls[requests[r].call].params = ParamsRequiredOnly
        /\ requests[r].url = "/integrations/pricing/"

\* C3: a call whose request was answered 2xx with a JSON document resolves,
\* once it settles, with exactly that document.
C3_BodyReturnedUnmodified ==
    \A c \in Calls : \A r \in OwnRequests(c) :
        (Settled(c) /\ IsJSON(requests[r].reply) /\ Is2xx(requests[r].reply.status)) =>
            /\ calls[c].promise.state = "fulfilled"
            /\ calls[c].promise.value = ObjectData(requests[r].reply.doc)

C3_Witness ==
    \E c \in Calls : \E r \in OwnRequests(c) :
        /\ requests[r].reply = Reply(200, DocHour, JSONstringify(DocHour))
        /\ calls[c].promise = Fulfilled(ObjectData(DocHour))

\* C4: a call whose request was answered with a non-2xx status never
\* resolves; once it settles it is rejected with the transport's own error,
\* which carries the status of the reply.
C4_Non2xxRejects ==
    \A c \in Calls : \A r \in OwnRequests(c) :
        (requests[r].reply.received /\ ~Is2xx(requests[r].reply.status)) =>
            /\ calls[c].promise.state # "fulfilled"
            /\ Settled(c) =>
                /\ calls[c].promise.reason = requests[r].promise.reason
                /\ calls[c].promise.reason.response.status = requests[r].reply.status

C4_Witness ==
    \E c \in Calls : \E r \in OwnRequests(c) :
        /\ requests[r].reply.received
        /\ requests[r].reply.status = 404
        /\ calls[c].promise.state = "rejected"
        /\ calls[c].promise.reason.response.status = 404

\* C5: a settled call has settled with the outcome of its own request: the
\* data of the response to it, or the error it failed with, whatever the
\* other calls in flight and the order of the replies.
C5_ConcurrentCallsIndependent ==
    \A c \in Calls : Settled(c) =>
        \A r \in OwnRequests(c) :
            /\ requests[r].promise.state # "pending"
            /\ calls[c].promise.state = requests[r].promise.state
            /\ calls[c].promise.state = "fulfilled" =>
                   calls[c].promise.value = requests[r].promise.value.data
            /\ calls[c].promise.state = "rejected" =>
                   calls[c].promise.reason = requests[r].promise.reason

\* Two getEnergyUsage calls with different parameters were in flight
\* together; the second was answered first, and both have settled differently.
C5_Witness ==
    /\ Len(calls) = 2
    /\ calls[1].op = "getEnergyUsage" /\ calls[2].op = "getEnergyUsage"
    /\ calls[1].params # calls[2].params
    /\ calls[2].promise = Fulfilled(ObjectData(DocDay))
    /\ ~Settled(1)
    /\ requests[1].reply = Reply(404, DocNotFound, JSONstringify(DocNotFound))

\* C6: every invocation has issued exactly one request, a GET, whatever
\* became of it.
C6_ExactlyOneRequest ==
    /\ \A c \in Calls : Cardinality(OwnRequests(c)) = 1
    /\ \A r \in Requests : requests[r].call \in Calls /\ requests[r].method = "GET"

C6_Witness ==
    /\ Len(calls) = 2
    /\ Len(requests) = 2
    /\ calls[1].promise.state = "rejected"
    /\ calls[1].promise.reason.code = "ECONNABORTED"
    /\ calls[2].promise.state = "rejected"
    /\ calls[2].promise.reason.response.status = 500

\* C7: every request carries Authorization "sk-" followed by the credential
\* given at construction and Accept application/json, and targets the base
\* URL given at construction, or https://api.pstryk.pl when none was given.
C7_HeadersAndBaseUrl ==
    \A r \in Requests :
        /\ requests[r].headers.Authorization = "sk-" \o ctor.apiToken.v
        /\ requests[r].headers.Accept = "application/json"
        /\ requests[r].baseURL =
               (IF ctor.baseUrl = Undefined THEN Str("https://api.pstryk.pl") ELSE ctor.baseUrl)

C7_Witness ==
    /\ Len(requests) = 2
    /\ Settled(1)
    /\ ctor.baseUrl = Undefined
    /\ requests[2].baseURL = Str("https://api.pstryk.pl")
    /\ requests[2].headers.Authorization = "sk-test-token"

\* C8: the query of a request has no window_end or for_tz key when the
\* call's parameter object did not supply one (the key absent, or set to
\* undefined), and always has resolution and window_start.
C8_UnsetOptionalsOmitted ==
    \A r \in Requests :
        LET params == calls[requests[r].call].params IN
        /\ \A k \in {"window_end", "for_tz"} :
               (k \notin DOMAIN params \/ params[k] = Undefined) =>
                   k \notin DOMAIN requests[r].query
        /\ {"resolution", "window_start"} \subseteq DOMAIN requests[r].query

C8_Witness ==
    \E r \in Requests : \E q \in Requests :
        /\ calls[requests[r].call].params = ParamsUndefinedEnd
        /\ DOMAIN requests[r].query = {"resolution", "window_start", "for_tz"}
        /\ calls[requests[q].call].params = ParamsRequiredOnly
        /\ DOMAIN requests[q].query = {"resolution", "window_start"}

\* C9: a call whose request was answered 2xx with a body that is not JSON
\* is rejected once it settles, and never resolves.
C9_MalformedBodyRejects ==
    \A c \in Calls : \A r \in OwnRequests(c) :
        (requests[r].reply.received /\ Is2xx(requests[r].reply.status)
            /\ ~IsJSON(requests[r].reply)) =>
                /\ calls[c].promise.state # "fulfilled"

\* C10: every invocation settles; it settles once and keeps its outcome; and
\* a call whose request is unanswered after 10 seconds is rejected with the
\* timeout error.
C10_SettlesExactlyOnce ==
    /\ \A c \in 1..MaxCalls :
           (c \in Calls) ~> (c \in Calls /\ Settled(c))
    /\ [](\A c \in Calls : calls[c].settles = (IF Settled(c) THEN 1 ELSE 0))
    /\ [][\A c \in Calls : Settled(c) => calls'[c] = calls[c]]_vars
    /\ \A c \in 1..MaxCalls :
           (c \in Calls /\ \E r \in OwnRequests(c) :
                /\ requests[r].promise.state = "pending"
                /\ requests[r].timer.elapsed >= 10000)
             ~> (c \in Calls /\ calls[c].promise.state = "rejected"
                             /\ calls[c].promise.reason.code = "ECONNABORTED")

C10_Witness ==
    \E c \in Calls :
        /\ calls[c].promise.state = "rejected"
        /\ calls[c].promise.reason.code = "ECONNABORTED"
        /\ calls[c].settles = 1

\* The resolution values each operation's parameter type allows.
AllowedResolutions(op) ==
    CASE op = "getCarbonFootprint" -> {"hour", "day", "week", "month"}
      [] op = "getEnergyCost" -> {"hour", "day", "week", "month"}
      [] op = "getEnergyUsage" -> {"hour", "day", "week", "month", "year"}
      [] op = "getPricing" -> {"hour", "day", "month", "year"}
      [] op = "getProsumerPricing" -> {"hour", "day", "month", "year"}

OutOfSet(c) == calls[c].params.resolution.v \notin AllowedResolutions(calls[c].op)

\* C11: a call whose resolution is outside its operation's allowed set is
\* not rejected locally: it has issued its request, to the operation's path
\* and with that resolution in the query unchanged, and it is rejected only
\* if the transport rejected that request.
C11_NoResolutionValidation ==
    \A c \in Calls : OutOfSet(c) =>
        /\ \E r \in OwnRequests(c) :
               /\ requests[r].url = PathOf(calls[c].op)
               /\ "resolution" \in DOMAIN requests[r].query
               /\ requests[r].query["resolution"] = calls[c].params.resolution.v
        /\ calls[c].promise.state = "rejected" =>
               \E r \in OwnRequests(c) :
                   /\ requests[r].promise.state = "rejected"
                   /\ calls[c].promise.reason = requests[r].promise.reason

\* "year" to getEnergyCost and "fortnight" to getPricing both went out, and
\* the first was answered with a document.
C11_Witness ==
    /\ Len(calls) = 2
    /\ calls[1].op = "getEnergyCost" /\ calls[1].params = ParamsRequiredOnly
    /\ requests[1].query["resolution"] = "year"
    /\ calls[1].promise = Fulfilled(ObjectData(DocDay))
    /\ calls[2].op = "getPricing" /\ calls[2].params = ParamsFortnight
    /\ requests[2].url = "/integrations/pricing/"
    /\ requests[2].query["resolution"] = "fortnight"

\* The connection configuration a construction with ctor's arguments fixes.
ConstructedConfig ==
    [ baseURL |-> (IF ctor.baseUrl = Undefined THEN Str("https://api.pstryk.pl")
                   ELSE ctor.baseUrl),
      timeout |-> 10000,
      headers |-> [Authorization |-> "sk-" \o ctor.apiToken.v,
                   Accept |-> "application/json"] ]

\* What the transport was asked to send, without the request's progress.
Sent(r) ==
    [ method |-> requests[r].method, baseURL |-> requests[r].baseURL,
      url |-> requests[r].url, headers |-> requests[r].headers,
      query |-> requests[r].query, timeout |-> requests[r].timeout ]

\* C12: after any calls, resolved, rejected or timed out, the client's
\* connection configuration is the one its construction fixed; every request
\* carries it, and two calls of the same operation with the same parameters
\* issue the same request, the first of them on the fresh client; two calls
\* whose requests got the same reply settle the same way; and a call
\* answered 2xx with a document resolves whatever the earlier calls did.
C12_CallsLeaveClientUnchanged ==
    /\ (ctor.called /\ ctor.thrown = "") => axiosInstance = ConstructedConfig
    /\ \A r \in Requests :
           /\ requests[r].baseURL = ConstructedConfig.baseURL
           /\ requests[r].headers = ConstructedConfig.headers
           /\ requests[r].timeout = ConstructedConfig.timeout
    /\ \A r \in Requests : \A q \in Requests :
           LET c == calls[requests[r].call]
               d == calls[requests[q].call] IN
           /\ (c.op = d.op /\ c.params = d.params) => Sent(r) = Sent(q)
           /\ (requests[r].reply.received /\ requests[r].reply = requests[q].reply
                  /\ c.promise.state # "pending" /\ d.promise.state # "pending") =>
                  c.promise = d.promise
    /\ \A c \in Calls : \A d \in Calls :
           (c < d /\ calls[c].promise.state = "rejected" /\ Settled(d)
               /\ \E q \in OwnRequests(d) :
                      IsJSON(requests[q].reply) /\ Is2xx(requests[q].reply.status)) =>
               calls[d].promise.state = "fulfilled"

\* A call timed out; the same call made again on the same client was
\* answered and resolved, with the configuration as constructed.
C12_Witness ==
    /\ Len(calls) = 2
    /\ calls[1].op = calls[2].op /\ calls[1].params = calls[2].params
    /\ calls[1].promise.state = "rejected"
    /\ calls[1].promise.reason.code = "ECONNABORTED"
    /\ calls[2].promise = Fulfilled(ObjectData(DocHour))
    /\ Sent(1) = Sent(2)
    /\ axiosInstance.headers.Authorization = "sk-test-token"
    /\ axiosInstance.baseURL = Str("https://your-custom-pstryk-instance.com")

====
